---- MODULE Spec2Model ----
(***************************************************************************)
(* tap-intercom: the content-export flow of ContentExportStream            *)
(* (streams.py), the cleanup of TapIntercom.sync_all and the stream        *)
(* catalog of TapIntercom.discover_streams (tap.py), and the pagination    *)
(* cursor of IntercomPaginator / IntercomStream (client.py).               *)
(***************************************************************************)
EXTENDS Integers, Sequences, FiniteSets, TLC

\* ------------------------------------------------------------------ bounds
\* Status checks one export job may answer with a value other than 'completed'.
MaxPolls == 2
\* Data lines (after the header) of one extracted CSV file.
MaxRows == 2
\* Full syncs (TapIntercom.sync_all) of one behaviour.
MaxRuns == 2
\* The clock advances in ticks of TickMinutes minutes, MaxTicks times at most.
MaxTicks == 2
TickMinutes == 20
MaxDay == 1

\* ------------------------------------------------------- program constants
\* The content-export streams modelled, in the order of discover_streams.
ContentStreams == <<"answer", "answer_combined">>
\* One of the REST streams of STREAMS_DCT, synced after the export streams.
RestStreams == <<"admins">>
Catalog == ContentStreams \o RestStreams

\* replication_key of each content-export stream (tap.py, discover_streams).
ContentReplicationKey(name) ==
    CASE name = "answer" -> "answered_at"
      [] name = "answer_combined" -> "completed_at"
      [] OTHER -> "none"

\* IntercomStream.url_base: a literal, whatever the configuration holds.
url_base == "https://api.intercom.io"

AccessTokens == {"tokenA", "tokenB"}
BaseUrls == {"https://api.intercom.io", "https://other.example"}

\* A date as Python holds it: None, a string "%Y-%m-%dT%H:%M:%SZ" of the
\* minute v, or an int of v seconds.
DateNone == [kind |-> "none", v |-> 0]
DateStr(minutes) == [kind |-> "str", v |-> minutes]
DateInt(seconds) == [kind |-> "int", v |-> seconds]

\* start_date and end_date of the configuration.
StartDates == {DateStr(-60)}
EndDates == {DateNone}

\* The configurations a sync is run with: the default base_url with one
\* token, another base_url with another.
Configs ==
    {c \in [access_token : AccessTokens, base_url : BaseUrls,
            start_date : StartDates, end_date : EndDates] :
        (c.access_token = "tokenA") <=> (c.base_url = "https://api.intercom.io")}

\* Offsets of the local time zone from UTC, in minutes, the conversions of
\* date strings are explored with; the full syncs run in the first.
Zones == {0, 60}
SyncZones == {0}

\* Values the export status endpoint may answer with.
Statuses == {"pending", "failed", "completed"}

\* Files a scratch directory may hold: one CSV per content stream, the
\* downloaded archive, and a file that matches no modelled stream.
ZipFile == "tmp_intercom_data.zip"
OtherFile == "other.csv"
CsvOf(name) == name
FileNames == {CsvOf(ContentStreams[i]) : i \in 1..Len(ContentStreams)} \cup {ZipFile, OtherFile}

\* Archives the download may deliver: the files an archive extracts.
Archives == SUBSET (FileNames \ {ZipFile})

NoJob == 0
NoCall == [op |-> "none", base |-> "none", job |-> NoJob, token |-> "none"]
NoBookmark == [replication_key |-> "none", replication_key_value |-> -1]

VARIABLES
    cfg,        \* the tap's configuration: access_token, base_url, start_date, end_date
    tz,         \* offset of the local time zone from UTC, in minutes
    run,        \* full syncs started so far
    syncPc,     \* position of TapIntercom.sync_all
    cur,        \* index in Catalog of the stream being synced
    pc,         \* position of get_records of the current content stream
    dirExists,  \* whether /tmp/intercom_data exists
    files,      \* file name -> whether the scratch directory holds the file
    bookmarks,  \* tap.state['bookmarks'] of the content streams
    bm0,        \* the bookmarks when the current get_records began
    clock,      \* minutes of UTC time
    jobs,       \* export jobs submitted so far (all runs)
    jobId,      \* job_identifier held by request_content_export
    status,     \* last value check_status returned
    polls,      \* status checks of the current job
    lastCall,   \* the last outbound HTTP call
    lastOp,     \* the operation get_records started last
    err,        \* the error the current sync ended with, or "none"
    emitted,    \* records yielded by the current get_records
    rowsLeft,   \* lines of the open CSV file not read yet
    startedEmpty, \* whether os.listdir was empty when get_records began
    trace,      \* operations of the current get_records, in order
    runStartEmpty, \* whether the scratch directory was empty or absent when the sync began
    runSubmits, \* export jobs submitted by the current sync
    runDownloads, \* archives downloaded by the current sync
    runArchive, \* what the first archive the current sync extracted held
    window      \* payload of the export job submitted last, while its files may be on disk

VARIABLES
    pgPc,       \* position of the request loop of a paged REST stream
    pgValue,    \* paginator.current_value: the next page token
    pgBody,     \* body of the last response
    pgPrevBody, \* body of the response before the last request
    pgReqToken, \* next_page_token the last request was prepared with
    pgResult,   \* what get_next_url did on the last response
    pgCount,    \* requests issued
    pgMethod,   \* rest_method of the stream
    pgParams,   \* what get_url_params returned for the last request
    pgPayload   \* what prepare_request_payload returned for the last request

VARIABLES
    dCfg,       \* config["primary_keys"], when the config has it
    dPos,       \* entries of STREAMS_DCT the for loop has handled
    dPkLocal,   \* the local variable pk of discover_streams
    dStreams    \* the list discover_streams builds

VARIABLES
    chPair,     \* the parent and child stream being synced: an index of ParentChild
    chPc,       \* position of the parent's record loop
    chRecord,   \* the parent record just produced
    chContext,  \* the context get_child_context returned for it
    chUrl,      \* URL of the child's last request
    chRecords,  \* parent records produced so far
    chContexts, \* child contexts produced so far
    chRequests  \* child requests made so far

VARIABLES
    csvPc,      \* position of get_records in the file it reads
    csvHeader,  \* the first line of the file, as read
    csvColumns, \* the local variable columns
    csvLine,    \* the line the for loop read last
    csvRecord,  \* the record yielded last
    csvLines,   \* lines read after the first
    csvEmitted  \* records yielded

VARIABLES
    fnPc,       \* whether get_filename has been called
    fnListing,  \* os.listdir('/tmp/intercom_data')
    fnStream,   \* self.name
    fnResult    \* what get_filename returned

VARIABLES
    payPc,      \* whether get_payload has been called
    payStart,   \* get_starting_replication_key_value(context)
    payNow,     \* utc_now(), in minutes
    payPayload  \* what get_payload returned

VARIABLES
    hrPc,       \* how many times hour_rounder has been applied
    hrInput,    \* the timestamp hour_rounder is given
    hrFirst,    \* hour_rounder(hrInput)
    hrSecond    \* hour_rounder(hrFirst)

childVars == <<chPair, chPc, chRecord, chContext, chUrl, chRecords, chContexts, chRequests>>
csvVars == <<csvPc, csvHeader, csvColumns, csvLine, csvRecord, csvLines, csvEmitted>>
fnVars == <<fnPc, fnListing, fnStream, fnResult>>
payVars == <<payPc, payStart, payNow, payPayload>>
hrVars == <<hrPc, hrInput, hrFirst, hrSecond>>
auxVars == <<childVars, csvVars, fnVars, payVars, hrVars>>

pagingVars == <<pgPc, pgValue, pgBody, pgPrevBody, pgReqToken, pgResult, pgCount,
               pgMethod, pgParams, pgPayload>>
discVars == <<dCfg, dPos, dPkLocal, dStreams>>

runVars == <<runStartEmpty, runSubmits, runDownloads, runArchive, window>>

syncVars == <<cfg, tz, run, syncPc, cur, pc, dirExists, files, bookmarks, bm0, clock,
              jobs, jobId, status, polls, lastCall, lastOp, err, emitted, rowsLeft,
              startedEmpty, trace, runVars>>

\* --------------------------------------------------------- pure functions
\* A datetime: the day as an ordinal, and the time of day.
datetime(day, hour, minute, second, microsecond) ==
    [day |-> day, hour |-> hour, minute |-> minute, second |-> second,
     microsecond |-> microsecond]

\* datetime + timedelta(hours=h): the hours past 23 carry into the day.
PlusHours(ts, h) ==
    [ts EXCEPT !.day = ts.day + ((ts.hour + h) \div 24),
               !.hour = (ts.hour + h) % 24]

\* A rounding that always goes down to the hour of the timestamp.
hour_rounder_Floor(timestamp) ==
    PlusHours([timestamp EXCEPT !.second = 0, !.microsecond = 0, !.minute = 0,
                                !.hour = timestamp.hour],
              0)

\* ContentExportStream.hour_rounder: replace(second=0, microsecond=0,
\* minute=0, hour=timestamp.hour) + timedelta(hours=timestamp.minute // 30).
hour_rounder(timestamp) ==
    PlusHours([timestamp EXCEPT !.second = 0, !.microsecond = 0, !.minute = 0,
                                !.hour = timestamp.hour],
              timestamp.minute \div 30)

\* The clock of the sync counts whole minutes: a minute count as a datetime
\* and back.
FromMinutes(m) == datetime(m \div 1440, (m % 1440) \div 60, m % 60, 0, 0)
ToMinutes(ts) == (ts.day * 24 + ts.hour) * 60 + ts.minute

\* int(datetime.timestamp(datetime.strptime(d, "%Y-%m-%dT%H:%M:%SZ"))) when d
\* is a str: strptime gives a naive datetime, which timestamp() reads as
\* local time, zone minutes ahead of UTC.
ToEpoch(d, zone) == IF d.kind = "str" THEN DateInt((d.v - zone) * 60) ELSE d

\* ContentExportStream.get_payload, now being utc_now() in minutes.
get_payload(start_date, end_date, now, zone) ==
    LET end == IF end_date.kind = "none" THEN DateInt(now * 60) ELSE end_date
    IN [created_at_after |-> ToEpoch(start_date, zone),
        created_at_before |-> ToEpoch(end, zone)]

NoWindow == [created_at_after |-> DateNone, created_at_before |-> DateNone]

\* os.listdir of the scratch directory.
listdir == {f \in FileNames : files[f]}

\* re.match(self.name + r'_\d{8}-\d{6}\.csv', file)
Matches(name, f) == f = CsvOf(name)

\* ContentExportStream.get_filename: a file of the directory matching the stream.
get_filename(name) == {f \in listdir : Matches(name, f)}

\* The Authorization header the export calls build.
BearerOf(c) == c.access_token

ExportCall(op, job) ==
    [op |-> op, base |-> cfg.base_url, job |-> job, token |-> BearerOf(cfg)]

RestCall ==
    [op |-> "rest", base |-> url_base, job |-> NoJob, token |-> BearerOf(cfg)]

Event(op, res) == [op |-> op, job |-> jobId, res |-> res]

\* What the loop tells apart in a status value.
StatusClass(s) == IF s = "completed" THEN "completed" ELSE "other"

\* A loop that also breaks on 'failed'.
AfterStatus_BreakOnFailed(s) == IF s \in {"completed", "failed"} THEN "download" ELSE "sleep"

\* A loop with no break.
AfterStatus_NeverBreak(s) == "sleep"

\* The while loop of request_content_export: break on 'completed', else sleep.
AfterStatus(s) == IF s = "completed" THEN "download" ELSE "sleep"

\* A retry that submits the job again.
AfterSleep_Resubmit == "submit"

\* After time.sleep(10) the loop body runs again: check_status of the same job.
AfterSleep == "poll"

\* A request_content_export that asks for a job whatever the directory holds.
AfterCheckFolder_Always(listing) == "submit"

\* request_content_export: a job is requested only when os.listdir is empty.
AfterCheckFolder(listing) == IF listing = {} THEN "submit" ELSE "find"

CurName == Catalog[cur]

\* get_starting_replication_key_value: the stream's bookmark, the
\* configuration's start_date while it has none.
StartValue(i) ==
    IF bookmarks[i] = NoBookmark THEN cfg.start_date
    ELSE DateStr(bookmarks[i].replication_key_value)
IsContent(i) == i \in 1..Len(ContentStreams)

EmptyDir == [f \in FileNames |-> FALSE]

\* ------------------------------------------------------------------- Init
\* syncsDone: the syncs of this process that came before and left nothing.
SyncState(syncsDone) ==
    /\ run = syncsDone
    /\ syncPc = "idle"
    /\ cur = 1
    /\ pc = "none"
    /\ dirExists = FALSE
    /\ files = EmptyDir
    /\ bookmarks = [i \in 1..Len(ContentStreams) |-> NoBookmark]
    /\ bm0 = [i \in 1..Len(ContentStreams) |-> NoBookmark]
    /\ clock = 0
    /\ jobs = 0
    /\ jobId = NoJob
    /\ status = "none"
    /\ polls = 0
    /\ lastCall = NoCall
    /\ lastOp = "none"
    /\ err = "none"
    /\ emitted = 0
    /\ rowsLeft = 0
    /\ startedEmpty = FALSE
    /\ trace = <<>>
    /\ runStartEmpty = TRUE
    /\ runSubmits = 0
    /\ runDownloads = 0
    /\ runArchive = "none"
    /\ window = NoWindow

\* The state after construction, for a configuration and a time zone.
SyncInit ==
    /\ cfg \in Configs
    /\ tz \in SyncZones
    /\ SyncState(0)

\* ------------------------------------------------------------ TapIntercom
\* sync_all is entered: super().sync_all() walks the catalog.
StartSync ==
    /\ syncPc \in {"idle", "done", "failed"}
    /\ run < MaxRuns
    /\ run' = run + 1
    /\ syncPc' = "streams"
    /\ cur' = 1
    /\ pc' = "none"
    /\ err' = "none"
    /\ jobId' = NoJob
    /\ status' = "none"
    /\ polls' = 0
    /\ rowsLeft' = 0
    /\ emitted' = 0
    /\ lastOp' = "none"
    /\ trace' = <<>>
    /\ bm0' = bookmarks
    /\ lastCall' = NoCall
    /\ startedEmpty' = FALSE
    /\ \E d \in {0, 1} :
          /\ clock + d * TickMinutes <= MaxTicks * TickMinutes
          /\ clock' = clock + d * TickMinutes
    /\ UNCHANGED <<pagingVars, discVars, auxVars>>
    /\ runStartEmpty' = (listdir = {})
    /\ runSubmits' = 0
    /\ runDownloads' = 0
    /\ runArchive' = "none"
    /\ UNCHANGED window
    /\ UNCHANGED <<cfg, tz, dirExists, files, bookmarks, jobs>>

\* An except clause that raises a generic error in place of the original.
Raise_Translated(op) ==
    /\ pc' = "raised"
    /\ err' = "error"
    /\ syncPc' = "failed"

\* An exception leaves get_records and super().sync_all(): nothing catches it,
\* so the os.system call of sync_all is not reached.
Raise(op) ==
    /\ pc' = "raised"
    /\ err' = op
    /\ syncPc' = "failed"

\* get_records begins: request_content_export runs check_folder and os.listdir.
CheckFolder ==
    /\ syncPc = "streams" /\ IsContent(cur) /\ pc = "none"
    /\ dirExists' = TRUE
    /\ bm0' = bookmarks
    /\ emitted' = 0
    /\ rowsLeft' = 0
    /\ trace' = <<>>
    /\ lastOp' = "check_folder"
    /\ startedEmpty' = (listdir = {})
    /\ pc' = AfterCheckFolder(listdir)
    /\ UNCHANGED <<pagingVars, discVars, auxVars>>
    /\ UNCHANGED runVars
    /\ UNCHANGED <<cfg, tz, run, syncPc, cur, files, bookmarks, clock, jobs, jobId,
                   status, polls, lastCall, err>>

\* get_job_identifier: the POST that submits the export job.
Submit ==
    /\ syncPc = "streams" /\ pc = "submit"
    /\ lastOp' = "submit"
    /\ lastCall' = ExportCall("submit", NoJob)
    /\ trace' = Append(trace, [op |-> "submit", job |-> NoJob, res |-> "sent"])
    /\ \/ /\ jobs' = jobs + 1
          /\ jobId' = jobs + 1
          /\ polls' = 0
          /\ status' = "none"
          /\ pc' = "poll"
          /\ UNCHANGED <<syncPc, err>>
       \/ \* the response has no "job_identifier": .get() gives None
          /\ jobId' = NoJob
          /\ polls' = 0
          /\ status' = "none"
          /\ pc' = "poll"
          /\ UNCHANGED <<jobs, syncPc, err>>
       \/ /\ Raise("submit")
          /\ UNCHANGED <<jobs, jobId, polls, status>>
    /\ UNCHANGED <<startedEmpty, pagingVars, discVars, auxVars>>
    /\ runSubmits' = runSubmits + 1
    /\ window' = get_payload(StartValue(cur), cfg.end_date, clock, tz)
    /\ UNCHANGED <<runStartEmpty, runDownloads, runArchive>>
    /\ UNCHANGED <<cfg, tz, run, cur, dirExists, files, bookmarks, bm0, clock,
                   emitted, rowsLeft>>

\* One pass of the while loop: check_status, then break or sleep.
CheckStatus ==
    /\ syncPc = "streams" /\ pc = "poll"
    /\ lastOp' = "status"
    /\ lastCall' = ExportCall("status", jobId)
    /\ \/ \E s \in Statuses :
            /\ polls < MaxPolls \/ (s = "completed" /\ polls = MaxPolls)
            /\ status' = s
            /\ polls' = polls + 1
            /\ trace' = Append(trace, Event("status", StatusClass(s)))
            /\ pc' = AfterStatus(s)
            /\ UNCHANGED <<syncPc, err>>
       \/ /\ Raise("status")
          /\ trace' = Append(trace, Event("status", "raised"))
          /\ UNCHANGED <<status, polls>>
    /\ UNCHANGED <<startedEmpty, pagingVars, discVars, auxVars>>
    /\ UNCHANGED runVars
    /\ UNCHANGED <<cfg, tz, run, cur, dirExists, files, bookmarks, bm0, clock, jobs,
                   jobId, emitted, rowsLeft>>

\* time.sleep(10), after which the loop checks the status again.
Sleep ==
    /\ syncPc = "streams" /\ pc = "sleep"
    /\ lastOp' = "sleep"
    /\ trace' = Append(trace, Event("sleep", "slept"))
    /\ pc' = AfterSleep
    /\ \E d \in {0, 1} :
          /\ clock + d * TickMinutes <= MaxTicks * TickMinutes
          /\ clock' = clock + d * TickMinutes
    /\ UNCHANGED <<startedEmpty, pagingVars, discVars, auxVars>>
    /\ UNCHANGED runVars
    /\ UNCHANGED <<cfg, tz, run, syncPc, cur, dirExists, files, bookmarks, bm0, jobs,
                   jobId, status, polls, lastCall, err, emitted, rowsLeft>>

\* download_export: the GET of the archive, written to the scratch directory.
\* The GET may raise, before the archive file exists; open() creates the file,
\* so a write that raises leaves a truncated archive in the directory.
Download ==
    /\ syncPc = "streams" /\ pc = "download"
    /\ lastOp' = "download"
    /\ lastCall' = ExportCall("download", jobId)
    /\ trace' = Append(trace, Event("download", "sent"))
    /\ \/ /\ files' = [files EXCEPT ![ZipFile] = TRUE]
          /\ runDownloads' = runDownloads + 1
          /\ pc' = "extract"
          /\ UNCHANGED <<syncPc, err>>
       \/ /\ Raise("download")
          /\ UNCHANGED <<files, runDownloads>>
       \/ /\ Raise("download")
          /\ files' = [files EXCEPT ![ZipFile] = TRUE]
          /\ UNCHANGED runDownloads
    /\ \E d \in {0, 1} :
          /\ clock + d * TickMinutes <= MaxTicks * TickMinutes
          /\ clock' = clock + d * TickMinutes
    /\ UNCHANGED <<startedEmpty, pagingVars, discVars, auxVars>>
    /\ UNCHANGED <<runStartEmpty, runSubmits, runArchive, window>>
    /\ UNCHANGED <<cfg, tz, run, cur, dirExists, bookmarks, bm0, jobs, jobId,
                   status, polls, emitted, rowsLeft>>

\* decompress_zip then delete_zipfile. extractall writes the members one by
\* one: when it raises, the members before the bad one are in the directory,
\* and the archive stays, delete_zipfile not being reached.
Extract ==
    /\ syncPc = "streams" /\ pc = "extract"
    /\ lastOp' = "extract"
    /\ \/ \E a \in Archives :
            /\ files' = [f \in FileNames |->
                            IF f = ZipFile THEN FALSE ELSE (f \in a \/ files[f])]
            /\ trace' = Append(trace, Event("extract", "done"))
            /\ runArchive' = IF runArchive # "none" THEN runArchive
                             ELSE IF a = {} THEN "empty" ELSE "files"
            /\ pc' = "find"
            /\ UNCHANGED <<syncPc, err>>
       \/ /\ Raise("extract")
          /\ \E a \in Archives :
                files' = [f \in FileNames |-> f \in a \/ files[f]]
          /\ trace' = Append(trace, Event("extract", "raised"))
          /\ UNCHANGED runArchive
    /\ UNCHANGED <<startedEmpty, pagingVars, discVars, auxVars>>
    /\ UNCHANGED <<runStartEmpty, runSubmits, runDownloads, window>>
    /\ UNCHANGED <<cfg, tz, run, cur, dirExists, bookmarks, bm0, clock, jobs, jobId,
                   status, polls, lastCall, emitted, rowsLeft>>

\* A get_records whose bookmark statements follow the if block.
AfterNoFile_Bookmark == "read"

\* if stream_filename: with None the whole block is skipped, the bookmark
\* statements too, and get_records returns.
AfterNoFile == "end"

\* get_filename, then open() and readline() of the header when a file matched;
\* the file holds some number of data lines.
OpenFile ==
    /\ syncPc = "streams" /\ pc = "find"
    /\ IF get_filename(CurName) = {}
       THEN /\ pc' = AfterNoFile
            /\ lastOp' = "nofile"
            /\ UNCHANGED <<trace, rowsLeft, syncPc, err>>
       ELSE /\ lastOp' = "open"
            /\ trace' = Append(trace, Event("open", "opened"))
            /\ \/ /\ \E n \in 0..MaxRows : rowsLeft' = n
                  /\ pc' = "read"
                  /\ UNCHANGED <<syncPc, err>>
               \/ /\ Raise("open")
                  /\ UNCHANGED rowsLeft
    /\ UNCHANGED <<startedEmpty, pagingVars, discVars, auxVars>>
    /\ UNCHANGED runVars
    /\ UNCHANGED <<cfg, tz, run, cur, dirExists, files, bookmarks, bm0, clock, jobs,
                   jobId, status, polls, lastCall, emitted>>

\* The for loop over the file reads the next line: it yields one record,
\* the consumer taking its time with it, or the read raises (a line that
\* cannot be decoded).
YieldRecord ==
    /\ syncPc = "streams" /\ pc = "read" /\ rowsLeft > 0
    /\ \/ /\ emitted' = emitted + 1
          /\ rowsLeft' = rowsLeft - 1
          /\ trace' = Append(trace, Event("record", "yielded"))
          /\ \E d \in {0, 1} :
                /\ clock + d * TickMinutes <= MaxTicks * TickMinutes
                /\ clock' = clock + d * TickMinutes
          /\ UNCHANGED <<syncPc, pc, lastOp, err>>
       \/ /\ Raise("read")
          /\ lastOp' = "read"
          /\ UNCHANGED <<emitted, rowsLeft, trace, clock>>
    /\ UNCHANGED <<startedEmpty, pagingVars, discVars, auxVars>>
    /\ UNCHANGED runVars
    /\ UNCHANGED <<cfg, tz, run, cur, dirExists, files, bookmarks, bm0,
                   jobs, jobId, status, polls, lastCall>>

\* The generator is suspended at a yield, the last row's like any other: the
\* consumer closes it, or throws an exception into it. The statements after
\* the yield do not run.
ConsumerStops ==
    /\ syncPc = "streams" /\ pc = "read" /\ emitted > 0
    /\ \/ /\ pc' = "end"
          /\ lastOp' = "close"
          /\ UNCHANGED <<syncPc, err>>
       \/ /\ Raise("throw")
          /\ lastOp' = "throw"
    /\ UNCHANGED <<startedEmpty, pagingVars, discVars, auxVars>>
    /\ UNCHANGED runVars
    /\ UNCHANGED <<cfg, tz, run, cur, dirExists, files, bookmarks, bm0, clock,
                   jobs, jobId, status, polls, lastCall, emitted, rowsLeft,
                   trace>>

\* A bookmark of the current time, not rounded.
BookmarkValue_NotRounded(name, now) ==
    [replication_key |-> ContentReplicationKey(name),
     replication_key_value |-> now]

\* The statements after the with block: the stream's bookmark is written.
BookmarkValue(name, now) ==
    [replication_key |-> ContentReplicationKey(name),
     replication_key_value |-> ToMinutes(hour_rounder(FromMinutes(now)))]

WriteBookmark ==
    /\ syncPc = "streams" /\ pc = "read" /\ rowsLeft = 0
    /\ bookmarks' = [bookmarks EXCEPT ![cur] = BookmarkValue(CurName, clock)]
    /\ lastOp' = "bookmark"
    /\ trace' = Append(trace, Event("bookmark", "written"))
    /\ pc' = "end"
    /\ UNCHANGED <<startedEmpty, pagingVars, discVars, auxVars>>
    /\ UNCHANGED runVars
    /\ UNCHANGED <<cfg, tz, run, syncPc, cur, dirExists, files, bm0, clock, jobs,
                   jobId, status, polls, lastCall, err, emitted, rowsLeft>>

\* get_records returned: its locals are gone, and super().sync_all() goes on
\* to the next stream.
NextStream ==
    /\ syncPc = "streams" /\ IsContent(cur) /\ pc = "end"
    /\ cur' = cur + 1
    /\ pc' = "none"
    /\ jobId' = NoJob
    /\ status' = "none"
    /\ polls' = 0
    /\ rowsLeft' = 0
    /\ emitted' = 0
    /\ lastOp' = "none"
    /\ trace' = <<>>
    /\ startedEmpty' = FALSE
    /\ bm0' = bookmarks
    /\ \E d \in {0, 1} :
          /\ clock + d * TickMinutes <= MaxTicks * TickMinutes
          /\ clock' = clock + d * TickMinutes
    /\ UNCHANGED <<pagingVars, discVars, auxVars>>
    /\ UNCHANGED runVars
    /\ UNCHANGED <<cfg, tz, run, syncPc, dirExists, files, bookmarks, jobs, lastCall, err>>

\* A stream that is not selected in the catalog is passed over.
SkipStream ==
    /\ syncPc = "streams" /\ IsContent(cur) /\ pc = "none"
    /\ cur' = cur + 1
    /\ UNCHANGED <<pagingVars, discVars, auxVars>>
    /\ UNCHANGED runVars
    /\ UNCHANGED <<cfg, tz, run, syncPc, pc, dirExists, files, bookmarks, bm0, clock,
                   jobs, jobId, status, polls, lastCall, lastOp, err, emitted,
                   rowsLeft, startedEmpty, trace>>

\* A REST stream is synced: its request goes to url_base with the authenticator.
SyncRestStream ==
    /\ syncPc = "streams" /\ cur \in 1..Len(Catalog) /\ ~IsContent(cur)
    /\ lastCall' = RestCall
    /\ \/ /\ cur' = cur + 1
          /\ UNCHANGED <<syncPc, pc, err>>
       \/ /\ Raise("rest")
          /\ UNCHANGED cur
    /\ UNCHANGED <<startedEmpty, pagingVars, discVars, auxVars>>
    /\ UNCHANGED runVars
    /\ UNCHANGED <<cfg, tz, run, dirExists, files, bookmarks, bm0, clock, jobs,
                   jobId, status, polls, lastOp, emitted, rowsLeft, trace>>

\* A cleanup that removes the archive only.
Cleanup_ZipOnly ==
    /\ syncPc = "streams" /\ cur = Len(Catalog) + 1
    /\ files' = [files EXCEPT ![ZipFile] = FALSE]
    /\ syncPc' = "done"
    /\ UNCHANGED <<startedEmpty, pagingVars, discVars, auxVars>>
    /\ window' = NoWindow
    /\ UNCHANGED <<runStartEmpty, runSubmits, runDownloads, runArchive>>
    /\ UNCHANGED <<cfg, tz, run, cur, pc, dirExists, bookmarks, bm0, clock, jobs, jobId,
                   status, polls, lastCall, lastOp, err, emitted, rowsLeft, trace>>

\* super().sync_all() returned: os.system("rm -rf /tmp/intercom_data").
Cleanup ==
    /\ syncPc = "streams" /\ cur = Len(Catalog) + 1
    /\ dirExists' = FALSE
    /\ files' = EmptyDir
    /\ syncPc' = "done"
    /\ UNCHANGED <<startedEmpty, pagingVars, discVars, auxVars>>
    /\ window' = NoWindow
    /\ UNCHANGED <<runStartEmpty, runSubmits, runDownloads, runArchive>>
    /\ UNCHANGED <<cfg, tz, run, cur, pc, bookmarks, bm0, clock, jobs, jobId, status,
                   polls, lastCall, lastOp, err, emitted, rowsLeft, trace>>

GetRecordsStep ==
    \/ CheckFolder
    \/ Submit
    \/ CheckStatus
    \/ Sleep
    \/ Download
    \/ Extract
    \/ OpenFile
    \/ YieldRecord
    \/ WriteBookmark

vars == <<syncVars, pagingVars, discVars, auxVars>>

\* ============================================================== pagination
\* Requests one paged stream may issue.
MaxPages == 3

\* Python strings a response may hold under pages.next: a bare cursor, or a
\* URL with one query parameter.  A string is kept as its parts.
Cursors == {"", "c1", "c2"}
StrCursor(c) == [host |-> "", path |-> c, qkey |-> "", qval |-> ""]
StrUrl(k, v) == [host |-> "https://api.intercom.io", path |-> "/contacts", qkey |-> k, qval |-> v]
NextStrings ==
    {StrCursor(c) : c \in Cursors}
        \cup {StrUrl(k, v) : k \in {"page", "starting_after"}, v \in {"2", "c1", ""}}

\* JSON values under pages.next, as Python sees them: None, a str, or a dict
\* that may have a "starting_after" key (whose value is null or a cursor).
PyNone == [t |-> "none", s |-> StrCursor(""), hasSA |-> FALSE, sa |-> "null"]
PyStr(x) == [t |-> "str", s |-> x, hasSA |-> FALSE, sa |-> "null"]
PyDict(hasSA, sa) == [t |-> "dict", s |-> StrCursor(""), hasSA |-> hasSA, sa |-> sa]
NextValues ==
    {PyNone} \cup {PyStr(x) : x \in NextStrings}
        \cup {PyDict(FALSE, "null")}
        \cup {PyDict(TRUE, v) : v \in Cursors \cup {"null"}}

\* Response bodies: "pages" absent, null or an object; the object has a
\* "next" key or not.
Bodies ==
    {[pages |-> "absent", nextKey |-> FALSE, next |-> PyNone],
     [pages |-> "null", nextKey |-> FALSE, next |-> PyNone],
     [pages |-> "dict", nextKey |-> FALSE, next |-> PyNone]}
        \cup {[pages |-> "dict", nextKey |-> TRUE, next |-> n] : n \in NextValues}

NoBody == [pages |-> "absent", nextKey |-> FALSE, next |-> PyNone]

\* What a call did: returned a value, or raised.
Returned(v) == [kind |-> "return", val |-> v, exc |-> "none"]
Raised(e) == [kind |-> "raise", val |-> PyNone, exc |-> e]
NoResult == [kind |-> "none", val |-> PyNone, exc |-> "none"]

\* data.get("next") with data = response.json().get("pages", {})
DataNext(body) == IF body.pages = "dict" /\ body.nextKey THEN body.next ELSE PyNone

\* "starting_after" in x: a key test on a dict, a substring test on a str.
InStartingAfter(x) ==
    IF x.t = "dict" THEN x.hasSA
    ELSE x.s.qkey = "starting_after" \/ x.s.path = "starting_after"

\* x.get("starting_after") of a dict.
SaValue(x) == IF x.sa = "null" THEN PyNone ELSE PyStr(StrCursor(x.sa))

\* A get_next_url that falls back to a cursor when the body has no pages.next.
get_next_url_Default(body) ==
    IF body.pages = "null" THEN Raised("AttributeError")
    ELSE IF DataNext(body).t = "none" THEN Returned(PyStr(StrCursor("c1")))
    ELSE IF InStartingAfter(DataNext(body))
         THEN IF DataNext(body).t = "dict"
              THEN Returned(SaValue(DataNext(body)))
              ELSE Raised("AttributeError")
         ELSE Returned(DataNext(body))

\* IntercomPaginator.get_next_url
get_next_url(body) ==
    IF body.pages = "null" THEN Raised("AttributeError")
    ELSE IF DataNext(body).t = "none" THEN Returned(PyNone)
    ELSE IF InStartingAfter(DataNext(body))
         THEN IF DataNext(body).t = "dict"
              THEN Returned(SaValue(DataNext(body)))
              ELSE Raised("AttributeError")
         ELSE Returned(DataNext(body))

\* Python truth of a value: None and '' are false.
Truthy(v) == v.t = "dict" \/ (v.t = "str" /\ v.s # StrCursor(""))

\* BaseHATEOASPaginator.get_next: urlparse(next_url) if next_url else None.
\* urlparse takes a str; the token is the parsed string.
NoToken == PyNone
get_next(body) ==
    LET r == get_next_url(body) IN
    IF r.kind = "raise" THEN r
    ELSE IF ~Truthy(r.val) THEN Returned(NoToken)
    ELSE IF r.val.t = "dict" THEN Raised("AttributeError")
    ELSE Returned(r.val)

\* rest_method of the streams: "GET" unless the class sets "POST".
RestMethods == {"GET", "POST"}

\* The page size both functions ask for.
per_page == 150

\* An empty dict.
EmptyDict == [k \in {} |-> ""]

\* dict(parse_qsl(next_page_token.query)): the name and value of the query,
\* a name with a blank value left out.
ParsedQuery(token) ==
    IF token.s.qkey # "" /\ token.s.qval # ""
    THEN [k \in {token.s.qkey} |-> token.s.qval]
    ELSE EmptyDict

\* if next_page_token: None is false, a parsed URL (a 6-tuple) is true.
HasToken(token) == token # NoToken

\* A get_url_params that does not look at rest_method.
get_url_params_AnyMethod(rest_method, next_page_token) ==
    IF ~HasToken(next_page_token) THEN "per_page" :> per_page
    ELSE IF "page" \in DOMAIN ParsedQuery(next_page_token)
    THEN ("per_page" :> per_page) @@ ("page" :> ParsedQuery(next_page_token)["page"])
    ELSE ("per_page" :> per_page) @@ ("starting_after" :> next_page_token)

\* IntercomStream.get_url_params.
get_url_params(rest_method, next_page_token) ==
    IF rest_method # "GET" THEN EmptyDict
    ELSE IF ~HasToken(next_page_token) THEN "per_page" :> per_page
    ELSE IF "page" \in DOMAIN ParsedQuery(next_page_token)
    THEN ("per_page" :> per_page) @@ ("page" :> ParsedQuery(next_page_token)["page"])
    ELSE ("per_page" :> per_page) @@ ("starting_after" :> next_page_token)

\* if start_date: None and the empty string are false.
HasDate(d) == d.kind = "str" \/ (d.kind = "int" /\ d.v # 0)

NoPayload == [isNone |-> TRUE, body |-> EmptyDict]

SortBody == "sort" :> [field |-> "updated_at", order |-> "ascending"]
QueryBody(start_date, zone) ==
    "query" :> [field |-> "updated_at", operator |-> ">", value |-> ToEpoch(start_date, zone)]
PaginationBody(next_page_token) ==
    "pagination" :> [per_page |-> per_page, starting_after |-> next_page_token]

\* A prepare_request_payload that always sends the pagination entry.
prepare_request_payload_AlwaysPagination(rest_method, start_date, next_page_token, zone) ==
    IF rest_method = "POST"
    THEN [isNone |-> FALSE,
          body |-> SortBody @@ PaginationBody(next_page_token)
                   @@ (IF HasDate(start_date) THEN QueryBody(start_date, zone) ELSE EmptyDict)]
    ELSE NoPayload

\* IntercomStream.prepare_request_payload, start_date being
\* config.get("start_date").
prepare_request_payload(rest_method, start_date, next_page_token, zone) ==
    IF rest_method = "POST"
    THEN [isNone |-> FALSE,
          body |-> SortBody
                   @@ (IF HasDate(start_date) THEN QueryBody(start_date, zone) ELSE EmptyDict)
                   @@ (IF HasToken(next_page_token) THEN PaginationBody(next_page_token)
                       ELSE EmptyDict)]
    ELSE NoPayload

PagingIdle ==
    /\ pgPc = "idle"
    /\ pgMethod = "GET"
    /\ pgParams = EmptyDict
    /\ pgPayload = NoPayload
    /\ pgValue = NoToken
    /\ pgBody = NoBody
    /\ pgPrevBody = NoBody
    /\ pgReqToken = NoToken
    /\ pgResult = NoResult
    /\ pgCount = 0

\* get_new_paginator: a fresh IntercomPaginator, current_value None.
PagingStart ==
    /\ pgPc = "request"
    /\ pgMethod \in RestMethods
    /\ pgParams = EmptyDict
    /\ pgPayload = NoPayload
    /\ pgValue = NoToken
    /\ pgBody = NoBody
    /\ pgPrevBody = NoBody
    /\ pgReqToken = NoToken
    /\ pgResult = NoResult
    /\ pgCount = 0

\* The request loop: a request is prepared with paginator.current_value and
\* sent, and its response is received.
PageRequest ==
    /\ pgPc = "request"
    /\ pgCount < MaxPages
    /\ pgCount' = pgCount + 1
    /\ pgReqToken' = pgValue
    /\ pgParams' = get_url_params(pgMethod, pgValue)
    /\ pgPayload' = prepare_request_payload(pgMethod, cfg.start_date, pgValue, tz)
    /\ pgPrevBody' = pgBody
    /\ \E b \in Bodies : pgBody' = b
    /\ pgPc' = "advance"
    /\ UNCHANGED <<pgValue, pgResult, pgMethod>>
    /\ UNCHANGED <<syncVars, discVars, auxVars>>

\* paginator.advance(response): get_next, the loop check, the new value.
PageAdvance ==
    /\ pgPc = "advance"
    /\ pgResult' = get_next_url(pgBody)
    /\ LET r == get_next(pgBody) IN
         IF r.kind = "raise" THEN
            /\ pgPc' = "error"
            /\ UNCHANGED pgValue
         ELSE IF r.val = NoToken THEN
            /\ pgPc' = "finished"
            /\ UNCHANGED pgValue
         ELSE IF r.val = pgValue THEN
            /\ pgPc' = "error"
            /\ UNCHANGED pgValue
         ELSE
            /\ pgPc' = "request"
            /\ pgValue' = r.val
    /\ UNCHANGED <<pgBody, pgPrevBody, pgReqToken, pgCount, pgMethod, pgParams, pgPayload>>
    /\ UNCHANGED <<syncVars, discVars, auxVars>>

\* ========================================================= discover_streams
\* Entries config["primary_keys"] may hold.
MaxOverrides == 2

\* STREAMS_DCT, in the order of its keys.
STREAMS_DCT ==
    << <<"conversations", "ConversationsStream">>,
       <<"conversation_parts", "ConversationPartsStream">>,
       <<"collections", "CollectionsStream">>,
       <<"contacts_list", "ContactsListStream">>,
       <<"contacts", "ContactsStream">>,
       <<"admins", "AdminsStream">>,
       <<"articles", "ArticlesStream">>,
       <<"events", "EventsStream">>,
       <<"tags", "TagsStream">>,
       <<"teams", "TeamsStream">>,
       <<"tickets_list", "TicketsListStream">>,
       <<"tickets", "TicketsStream">>,
       <<"segments", "SegmentsStream">> >>

StreamNames == {STREAMS_DCT[i][1] : i \in 1..Len(STREAMS_DCT)}

\* A mapping that gives every stream the key "updated_at".
REPLICATION_KEY_MAPPING_AllUpdated(name) ==
    CASE name \in StreamNames -> "updated_at"

REPLICATION_KEY_MAPPING(name) ==
    CASE name \in {"conversations", "conversation_parts", "contacts", "collections",
                   "articles", "tickets"} -> "updated_at"
      [] name \in {"contacts_list", "events", "admins", "tags", "teams",
                   "tickets_list", "segments"} -> "None"

StreamRec(cls, name, pk, rk) ==
    [cls |-> cls, name |-> name, primary_keys |-> pk, replication_key |-> rk]

\* The list literal discover_streams starts from.
ExportStreamList ==
    << StreamRec("ContentExportStream", "answer", <<>>, "answered_at"),
       StreamRec("ContentExportStream", "answer_combined", <<>>, "completed_at"),
       StreamRec("ContentExportStream", "checkpoint", <<>>, "created_at"),
       StreamRec("ContentExportStream", "click", <<>>, "clicked_at"),
       StreamRec("ContentExportStream", "completion", <<>>, "completed_at"),
       StreamRec("ContentExportStream", "dismissal", <<>>, "dismissed_at"),
       StreamRec("ContentExportStream", "open", <<>>, "opened_at"),
       StreamRec("ContentExportStream", "overview", <<>>, "created_at"),
       StreamRec("ContentExportStream", "receipt", <<>>, "received_at"),
       StreamRec("ContentExportStream", "reply", <<>>, "replied_at"),
       StreamRec("ContentExportStream", "series_completion", <<>>, "completed_at"),
       StreamRec("ContentExportStream", "series_disengagement", <<>>, "disengaged_at"),
       StreamRec("ContentExportStream", "tour_step_view", <<>>, "viewed_at"),
       StreamRec("ReportExportStream", "admin_status_change", <<>>, "teammate_status_period_started_at"),
       StreamRec("ReportExportStream", "consolidated_conversation_part", <<>>, "action_time"),
       StreamRec("ReportExportStream", "conversation", <<>>, "conversation_started_at"),
       StreamRec("ReportExportStream", "conversation_rating_sent", <<>>, "conversation_rating_updated_at"),
       StreamRec("ReportExportStream", "conversation_sla_status_log", <<>>, "sla_started_at"),
       StreamRec("ReportExportStream", "conversation_state", <<>>, "conversation_state_started_at"),
       StreamRec("ReportExportStream", "copilot_prompt_response_pair", <<>>, "replied_at"),
       StreamRec("ReportExportStream", "teammate_handling_conversation", <<>>, "conversation_started_at"),
       StreamRec("ReportExportStream", "ticket_time_in_state", <<>>, "ticket_created_at"),
       StreamRec("ReportExportStream", "tickets_report", <<>>, "ticket_created_at") >>

\* Names and key lists a configuration may give under "primary_keys".
OverrideNames == StreamNames \cup {"answer", "conversation"}
KeyLists == {<<>>, <<"id">>, <<"id", "workspace_id">>}
PrimaryKeyConfigs ==
    UNION {[S -> KeyLists] : S \in {T \in SUBSET OverrideNames : Cardinality(T) <= MaxOverrides}}

\* primary_keys = {} ; if "primary_keys" in self.config: primary_keys = ...
ConfigPrimaryKeys(c) == IF c.present THEN c.map ELSE <<>>

\* A loop that sets pk = [] once, before the loop.
PkOf_Sticky(primary_keys, stream_name, pk_before) ==
    IF Cardinality(DOMAIN primary_keys) > 0 /\ stream_name \in DOMAIN primary_keys
    THEN primary_keys[stream_name]
    ELSE pk_before

\* pk = [] ; if len(primary_keys) > 0 and stream_name in primary_keys: pk = ...
\* (pk_before is the value the local variable had in the previous iteration)
PkOf(primary_keys, stream_name, pk_before) ==
    IF Cardinality(DOMAIN primary_keys) > 0 /\ stream_name \in DOMAIN primary_keys
    THEN primary_keys[stream_name]
    ELSE <<>>

DiscIdle ==
    /\ dCfg = [present |-> FALSE, map |-> <<>>]
    /\ dPos = 0
    /\ dPkLocal = <<>>
    /\ dStreams = <<>>

\* discover_streams is entered: the export streams are listed.
DiscStart ==
    /\ dCfg \in {[present |-> FALSE, map |-> <<>>]}
                  \cup {[present |-> TRUE, map |-> m] : m \in PrimaryKeyConfigs}
    /\ dPos = 0
    /\ dPkLocal = <<>>
    /\ dStreams = ExportStreamList

\* One iteration of the for loop over STREAMS_DCT.keys().
DiscoverStep ==
    /\ dPos < Len(STREAMS_DCT)
    /\ LET stream_name == STREAMS_DCT[dPos + 1][1]
           stream_class == STREAMS_DCT[dPos + 1][2]
           pk == PkOf(ConfigPrimaryKeys(dCfg), stream_name, dPkLocal)
       IN /\ dPkLocal' = pk
          /\ dStreams' = Append(dStreams,
                StreamRec(stream_class, stream_name, pk, REPLICATION_KEY_MAPPING(stream_name)))
    /\ dPos' = dPos + 1
    /\ UNCHANGED dCfg
    /\ UNCHANGED <<syncVars, pagingVars, auxVars>>

\* ======================================================== parent and child
MaxParentRecords == 3

RecordIds == {"101", "102", "103"}

\* parent_stream_type of the three child streams: <<parent, child>>.
ParentChild ==
    << <<"conversations", "conversation_parts">>,
       <<"contacts_list", "contacts">>,
       <<"tickets_list", "tickets">> >>

Lit(text) == [kind |-> "lit", text |-> text]
Var(key) == [kind |-> "var", text |-> key]

\* The class attribute path: literal text and {placeholders}.
Path(name) ==
    CASE name = "conversations" -> <<Lit("/conversations/search")>>
      [] name = "conversation_parts" -> <<Lit("/conversations/"), Var("conversation_id")>>
      [] name = "contacts_list" -> <<Lit("/contacts")>>
      [] name = "contacts" -> <<Lit("/contacts/"), Var("contact_id")>>
      [] name = "tickets_list" -> <<Lit("/tickets/search")>>
      [] name = "tickets" -> <<Lit("/tickets/"), Var("ticket_id")>>

\* A get_child_context that hands the record's id on under the key "id".
get_child_context_IdKey(name, record) ==
    [k \in {"id"} |-> record["id"]]

\* get_child_context of the three parent streams.
get_child_context(name, record) ==
    CASE name = "conversations" -> [k \in {"conversation_id"} |-> record["id"]]
      [] name = "contacts_list" -> [k \in {"contact_id"} |-> record["id"]]
      [] name = "tickets_list" -> [k \in {"ticket_id"} |-> record["id"]]

\* The URL of a request: url_base and the path, each {key} the context
\* has replaced by its value.
get_url(name, context) ==
    <<Lit(url_base)>> \o
    [i \in 1..Len(Path(name)) |->
        IF Path(name)[i].kind = "var" /\ Path(name)[i].text \in DOMAIN context
        THEN Lit(context[Path(name)[i].text])
        ELSE Path(name)[i]]

NoRecord == [id |-> "none"]
NoContext == <<>>
NoUrl == <<>>

ChildIdle ==
    /\ chPair = 0
    /\ chPc = "idle"
    /\ chRecord = NoRecord
    /\ chContext = NoContext
    /\ chUrl = NoUrl
    /\ chRecords = 0
    /\ chContexts = 0
    /\ chRequests = 0

\* The sync of one parent stream starts.
ChildStart ==
    /\ chPair \in 1..Len(ParentChild)
    /\ chPc = "parent"
    /\ chRecord = NoRecord
    /\ chContext = NoContext
    /\ chUrl = NoUrl
    /\ chRecords = 0
    /\ chContexts = 0
    /\ chRequests = 0

\* The parent's get_records produces its next record.
ParentRecord ==
    /\ chPc = "parent"
    /\ chRecords < MaxParentRecords
    /\ \E id \in RecordIds : chRecord' = [id |-> id]
    /\ chRecords' = chRecords + 1
    /\ chPc' = "context"
    /\ UNCHANGED <<chPair, chContext, chUrl, chContexts, chRequests>>
    /\ UNCHANGED <<syncVars, pagingVars, discVars, csvVars, fnVars, payVars, hrVars>>

\* The record loop asks the parent for the record's child context.
ChildContext ==
    /\ chPc = "context"
    /\ chContext' = get_child_context(ParentChild[chPair][1], chRecord)
    /\ chContexts' = chContexts + 1
    /\ chPc' = "child"
    /\ UNCHANGED <<chPair, chRecord, chUrl, chRecords, chRequests>>
    /\ UNCHANGED <<syncVars, pagingVars, discVars, csvVars, fnVars, payVars, hrVars>>

\* The child stream is synced with that context: its request goes out.
ChildRequest ==
    /\ chPc = "child"
    /\ chUrl' = get_url(ParentChild[chPair][2], chContext)
    /\ chRequests' = chRequests + 1
    /\ chPc' = "parent"
    /\ UNCHANGED <<chPair, chRecord, chContext, chRecords, chContexts>>
    /\ UNCHANGED <<syncVars, pagingVars, discVars, csvVars, fnVars, payVars, hrVars>>

\* The parent has no more records.
ParentEnd ==
    /\ chPc = "parent"
    /\ chPc' = "done"
    /\ UNCHANGED <<chPair, chRecord, chContext, chUrl, chRecords, chContexts, chRequests>>
    /\ UNCHANGED <<syncVars, pagingVars, discVars, csvVars, fnVars, payVars, hrVars>>

\* ============================================================ reading a file
MaxLineLen == 3
MaxCsvLines == 2

\* Characters of a line: a letter, the comma and a blank.
Chars == {"a", ",", " "}

\* The text of a line, without its line terminator.
Texts == UNION {[1..n -> Chars] : n \in 0..MaxLineLen}

\* A line as the file object gives it: its text and whether "\n" ends it.
\* The text is never empty without a terminator: that is the end of file.
Line(text, nl) == [text |-> text, nl |-> nl]
EndOfFile == Line(<<>>, FALSE)
FileLines == {Line(t, nl) : t \in Texts, nl \in BOOLEAN} \ {EndOfFile}

\* str.strip(): leading and trailing whitespace removed, the terminator too.
RECURSIVE LStrip(_)
LStrip(s) == IF s # <<>> /\ Head(s) = " " THEN LStrip(Tail(s)) ELSE s

RECURSIVE RStrip(_)
RStrip(s) ==
    IF s # <<>> /\ s[Len(s)] = " " THEN RStrip(SubSeq(s, 1, Len(s) - 1)) ELSE s

Strip(l) == RStrip(LStrip(l.text))

\* str.split(','): the pieces between the commas; one empty piece for ''.
RECURSIVE Split(_)
Split(s) ==
    IF \A i \in 1..Len(s) : s[i] # "," THEN <<s>>
    ELSE LET i == CHOOSE k \in 1..Len(s) :
                    s[k] = "," /\ \A j \in 1..(k - 1) : s[j] # ","
         IN <<SubSeq(s, 1, i - 1)>> \o Split(SubSeq(s, i + 1, Len(s)))

\* dict(zip(columns, values)): pairs up to the shorter length, a repeated
\* column keeping its last value.
ZipDict(columns, values) ==
    LET n == IF Len(columns) < Len(values) THEN Len(columns) ELSE Len(values)
    IN [c \in {columns[i] : i \in 1..n} |->
           values[CHOOSE i \in 1..n :
                     columns[i] = c /\ \A j \in (i + 1)..n : columns[j] # c]]

\* A test that skips lines that are blank once stripped.
LineIsEmpty_Stripped(l) == Strip(l) = <<>>

\* line != '' in the for loop, negated.
LineIsEmpty(l) == l.text = <<>> /\ ~l.nl

NoColumns == <<>>
NoCsvRecord == [c \in {} |-> <<>>]

CsvIdle ==
    /\ csvPc = "idle"
    /\ csvHeader = EndOfFile
    /\ csvColumns = NoColumns
    /\ csvLine = EndOfFile
    /\ csvRecord = NoCsvRecord
    /\ csvLines = 0
    /\ csvEmitted = 0

\* open() has returned the file of the stream.
CsvStart ==
    /\ csvPc = "open"
    /\ csvHeader = EndOfFile
    /\ csvColumns = NoColumns
    /\ csvLine = EndOfFile
    /\ csvRecord = NoCsvRecord
    /\ csvLines = 0
    /\ csvEmitted = 0

\* first_line = current_file.readline(); columns = first_line.strip().split(',')
\* readline gives '' when the file is empty.
ReadHeader ==
    /\ csvPc = "open"
    /\ \E l \in FileLines \cup {EndOfFile} :
          /\ csvHeader' = l
          /\ csvColumns' = Split(Strip(l))
    /\ csvPc' = "lines"
    /\ UNCHANGED <<csvLine, csvRecord, csvLines, csvEmitted>>
    /\ UNCHANGED <<syncVars, pagingVars, discVars, childVars, fnVars, payVars, hrVars>>

\* One pass of "for line in current_file": the next line is read and, unless
\* it is '', its record is yielded. No line follows one without a terminator.
ReadLine ==
    /\ csvPc = "lines"
    /\ csvLines < MaxCsvLines
    /\ csvHeader.nl
    /\ csvLines > 0 => csvLine.nl
    /\ \E l \in FileLines :
          /\ csvLine' = l
          /\ IF LineIsEmpty(l)
             THEN UNCHANGED <<csvRecord, csvEmitted>>
             ELSE /\ csvRecord' = ZipDict(csvColumns, Split(Strip(l)))
                  /\ csvEmitted' = csvEmitted + 1
    /\ csvLines' = csvLines + 1
    /\ UNCHANGED <<csvPc, csvHeader, csvColumns>>
    /\ UNCHANGED <<syncVars, pagingVars, discVars, childVars, fnVars, payVars, hrVars>>

\* The file is exhausted: the with block closes it.
CloseFile ==
    /\ csvPc = "lines"
    /\ csvPc' = "closed"
    /\ UNCHANGED <<csvHeader, csvColumns, csvLine, csvRecord, csvLines, csvEmitted>>
    /\ UNCHANGED <<syncVars, pagingVars, discVars, childVars, fnVars, payVars, hrVars>>

\* ============================================================== get_filename
MaxFiles == 2

\* Content-export streams whose names contain one another.
FnStreams == {"answer", "answer_combined", "completion", "series_completion"}

\* A name as the pieces of text a match can tell apart.
NameTokens(name) ==
    CASE name = "answer" -> <<"answer">>
      [] name = "answer_combined" -> <<"answer", "_", "combined">>
      [] name = "completion" -> <<"completion">>
      [] name = "series_completion" -> <<"series", "_", "completion">>

\* Files the scratch directory may hold. Of a stream: its export
\* <name>_<8 digits>-<6 digits>.csv, the same with 7 digits, <name>.csv, and
\* the export with ".bak" after it. And the downloaded archive.
ExportFile(name, variant) == [stream |-> name, variant |-> variant]
Variants == {"export", "short", "plain", "backup"}
ArchiveFile == ExportFile("none", "zip")
CandidateFiles == {ExportFile(n, v) : n \in FnStreams, v \in Variants} \cup {ArchiveFile}

\* The name of a file, in pieces: D8, D7 and D6 are runs of 8, 7 and 6 digits.
FileName(f) ==
    CASE f.variant = "export" -> NameTokens(f.stream) \o <<"_", "D8", "-", "D6", ".csv">>
      [] f.variant = "short" -> NameTokens(f.stream) \o <<"_", "D7", "-", "D6", ".csv">>
      [] f.variant = "plain" -> NameTokens(f.stream) \o <<".csv">>
      [] f.variant = "backup" ->
            NameTokens(f.stream) \o <<"_", "D8", "-", "D6", ".csv", ".bak">>
      [] f.variant = "zip" -> <<"tmp_intercom_data", ".zip">>

\* self.name + r'_\d{8}-\d{6}\.csv'
Pattern(name) == NameTokens(name) \o <<"_", "D8", "-", "D6", ".csv">>

\* re.search: the pattern anywhere in the string.
re_match_Search(pattern, string) ==
    \E k \in 0..(Len(string) - Len(pattern)) :
        SubSeq(string, k + 1, k + Len(pattern)) = pattern

\* re.match: the pattern at the start of the string, anything after it.
re_match(pattern, string) ==
    /\ Len(pattern) <= Len(string)
    /\ SubSeq(string, 1, Len(pattern)) = pattern

\* get_filename returning None.
NoFile == {}

FnIdle ==
    /\ fnPc = "idle"
    /\ fnListing = {}
    /\ fnStream = "none"
    /\ fnResult = NoFile

\* get_filename is called for a stream, the directory holding some files.
FnStart ==
    /\ fnPc = "call"
    /\ fnListing \in {l \in SUBSET CandidateFiles : Cardinality(l) <= MaxFiles}
    /\ fnStream \in FnStreams
    /\ fnResult = NoFile

\* ContentExportStream.get_filename: the first file of os.listdir, whose
\* order is arbitrary, that matches; None when the loop ends without one.
GetFilename ==
    /\ fnPc = "call"
    /\ LET found == {f \in fnListing : re_match(Pattern(fnStream), FileName(f))}
       IN IF found = {} THEN fnResult' = NoFile
          ELSE \E f \in found : fnResult' = {f}
    /\ fnPc' = "returned"
    /\ UNCHANGED <<fnListing, fnStream>>
    /\ UNCHANGED <<syncVars, pagingVars, discVars, childVars, csvVars, payVars, hrVars>>

\* =============================================================== get_payload
\* Minutes get_payload is explored with, as dates and as the current time.
PayMinutes == {m * TickMinutes : m \in 0..MaxTicks}

\* What get_starting_replication_key_value may give: nothing, a date
\* string, or an int.
PayStartValues ==
    {DateNone} \cup {DateStr(m) : m \in PayMinutes} \cup {DateInt(m * 60) : m \in PayMinutes}

\* Configurations of get_payload: end_date absent or given.
PayConfigs ==
    [access_token : {"tokenA"}, base_url : {url_base}, start_date : StartDates,
     end_date : {DateNone} \cup {DateStr(m) : m \in PayMinutes}]

PayIdle ==
    /\ payPc = "idle"
    /\ payStart = DateNone
    /\ payNow = 0
    /\ payPayload = NoWindow

\* get_job_identifier calls get_payload.
PayStart ==
    /\ payPc = "call"
    /\ payStart \in PayStartValues
    /\ payNow \in PayMinutes
    /\ payPayload = NoWindow

\* ContentExportStream.get_payload returns.
GetPayload ==
    /\ payPc = "call"
    /\ payPayload' = get_payload(payStart, cfg.end_date, payNow, tz)
    /\ payPc' = "returned"
    /\ UNCHANGED <<payStart, payNow>>
    /\ UNCHANGED <<syncVars, pagingVars, discVars, childVars, csvVars, fnVars, hrVars>>

\* ============================================================== hour_rounder
\* Timestamps hour_rounder is explored with: every hour and minute of the
\* days 0..MaxDay, with seconds and microseconds at their ends and inside.
Timestamps ==
    {datetime(d, h, m, sec, us) :
        d \in 0..MaxDay, h \in 0..23, m \in 0..59,
        sec \in {0, 30, 59}, us \in {0, 1, 999999}}

NoTimestamp == datetime(0, 0, 0, 0, 0)

HrIdle ==
    /\ hrPc = "idle"
    /\ hrInput = NoTimestamp
    /\ hrFirst = NoTimestamp
    /\ hrSecond = NoTimestamp

\* get_records is about to round the current time.
HrStart ==
    /\ hrPc = "call"
    /\ hrInput \in Timestamps
    /\ hrFirst = NoTimestamp
    /\ hrSecond = NoTimestamp

\* ContentExportStream.hour_rounder returns: first for the timestamp, then
\* for its own result.
HourRounder ==
    /\ \/ /\ hrPc = "call"
          /\ hrFirst' = hour_rounder(hrInput)
          /\ hrPc' = "once"
          /\ UNCHANGED hrSecond
       \/ /\ hrPc = "once"
          /\ hrSecond' = hour_rounder(hrFirst)
          /\ hrPc' = "twice"
          /\ UNCHANGED hrFirst
    /\ UNCHANGED hrInput
    /\ UNCHANGED <<syncVars, pagingVars, discVars, childVars, csvVars, fnVars, payVars>>

\* ========================================================== specifications
SyncIdle ==
    /\ SyncInit
    /\ cfg.access_token = "tokenA"
    /\ cfg.base_url = url_base

AuxIdle == ChildIdle /\ CsvIdle /\ FnIdle /\ PayIdle /\ HrIdle

Init == SyncInit /\ PagingIdle /\ DiscIdle /\ AuxIdle

Next ==
    \/ StartSync
    \/ CheckFolder
    \/ Submit
    \/ CheckStatus
    \/ Sleep
    \/ Download
    \/ Extract
    \/ OpenFile
    \/ YieldRecord
    \/ ConsumerStops
    \/ WriteBookmark
    \/ NextStream
    \/ SkipStream
    \/ SyncRestStream
    \/ Cleanup

\* Full syncs of the tap: the export streams, a REST stream, the cleanup.
Spec == Init /\ [][Next]_vars

\* The default configuration before the last sync the bound allows, the
\* syncs before it having selected no stream: the state is the one after
\* construction.
LiveInit ==
    /\ cfg \in Configs
    /\ cfg.access_token = "tokenA"
    /\ cfg.base_url = url_base
    /\ tz \in SyncZones
    /\ SyncState(MaxRuns - 1)
    /\ PagingIdle /\ DiscIdle /\ AuxIdle

\* One sync of that configuration, the sequential program never stopping
\* between two statements.
LiveSpec == LiveInit /\ [][Next]_vars /\ WF_vars(GetRecordsStep)

\* Configurations of a paged stream: start_date absent or given.
PagingConfigs ==
    [access_token : {"tokenA"}, base_url : {url_base},
     start_date : {DateNone} \cup StartDates, end_date : EndDates]

PagingInit ==
    /\ cfg \in PagingConfigs
    /\ tz \in Zones
    /\ SyncState(0)
    /\ PagingStart /\ DiscIdle /\ AuxIdle
PagingNext == PageRequest \/ PageAdvance
\* The request loop of one paged REST stream.
PagingSpec == PagingInit /\ [][PagingNext]_vars

DiscInit == SyncIdle /\ PagingIdle /\ DiscStart /\ AuxIdle
DiscNext == DiscoverStep
\* discover_streams, for every configuration of primary_keys.
DiscSpec == DiscInit /\ [][DiscNext]_vars

CsvInit == SyncIdle /\ PagingIdle /\ DiscIdle /\ ChildIdle /\ CsvStart /\ FnIdle /\ PayIdle /\ HrIdle
CsvNext == ReadHeader \/ ReadLine \/ CloseFile
\* get_records reading the file of its stream, for every header and line.
CsvSpec == CsvInit /\ [][CsvNext]_vars

FnInit == SyncIdle /\ PagingIdle /\ DiscIdle /\ ChildIdle /\ CsvIdle /\ FnStart /\ PayIdle /\ HrIdle
\* get_filename, for every stream and directory listing.
FnSpec == FnInit /\ [][GetFilename]_vars

PayInit ==
    /\ cfg \in PayConfigs
    /\ tz \in Zones
    /\ SyncState(0)
    /\ PagingIdle /\ DiscIdle /\ ChildIdle /\ CsvIdle /\ FnIdle /\ PayStart /\ HrIdle
\* get_payload, for every starting value, end_date, time and time zone.
PaySpec == PayInit /\ [][GetPayload]_vars

ChildInit == SyncIdle /\ PagingIdle /\ DiscIdle /\ ChildStart /\ CsvIdle /\ FnIdle /\ PayIdle /\ HrIdle
ChildNext == ParentRecord \/ ChildContext \/ ChildRequest \/ ParentEnd
\* The sync of a parent stream and, record by record, of its child.
ChildSpec == ChildInit /\ [][ChildNext]_vars

HourInit ==
    SyncIdle /\ PagingIdle /\ DiscIdle /\ ChildIdle /\ CsvIdle /\ FnIdle /\ PayIdle /\ HrStart
\* hour_rounder, for every timestamp, and once more for its result.
HourSpec == HourInit /\ [][HourRounder]_vars

\* ================================================================== claims
IdxOf(op) == {i \in 1..Len(trace) : trace[i].op = op}

Phase(op) ==
    CASE op = "submit" -> 1
      [] op \in {"status", "sleep"} -> 2
      [] op = "download" -> 3
      [] op = "extract" -> 4
      [] op = "open" -> 5
      [] op = "record" -> 6
      [] op = "bookmark" -> 7

\* C1: in a get_records that found the scratch directory empty, the steps come
\* in the order submit (once, first), status checks, download (once, right
\* after a status check that returned 'completed', for the same job),
\* extraction, CSV open, records; no record is yielded before the download
\* was sent and the extraction was done.
C1_ExportOrder ==
    startedEmpty =>
        /\ \A i, j \in 1..Len(trace) : i < j => Phase(trace[i].op) <= Phase(trace[j].op)
        /\ Cardinality(IdxOf("submit")) <= 1
        /\ trace # <<>> => trace[1].op = "submit"
        /\ Cardinality(IdxOf("download")) <= 1
        /\ \A i \in IdxOf("download") :
              /\ i > 1
              /\ trace[i - 1].op = "status"
              /\ trace[i - 1].res = "completed"
              /\ trace[i - 1].job = trace[i].job
        /\ \A i \in IdxOf("extract") : i > 1 /\ trace[i - 1].op = "download"
        /\ \A i \in IdxOf("open") \cup IdxOf("record") :
              \E j \in IdxOf("extract") :
                  /\ j < i
                  /\ trace[j].res = "done"
        /\ emitted = Cardinality(IdxOf("record"))

C1_Witness ==
    /\ startedEmpty
    /\ emitted >= 1
    /\ Cardinality(IdxOf("status")) >= 2
    /\ Cardinality(IdxOf("download")) = 1

\* C2: once a status check has returned 'completed' the download is sent
\* (the program not stopping between statements); and the poll loop is left
\* for the download by no other way than a status check returning
\* 'completed': a check that returned another value is followed by the sleep,
\* whatever the number of checks so far.
C2_PollUntilCompleted ==
    /\ (lastOp = "status" /\ status = "completed") ~> (lastOp = "download")
    /\ [][(pc \in {"poll", "sleep"} /\ pc' \notin {"poll", "sleep", "raised"})
            => (status' = "completed" /\ pc' = "download")]_vars
    /\ [](lastOp = "status" /\ pc # "raised" /\ status # "completed" => pc = "sleep")

C2_Witness ==
    /\ lastOp = "download"
    /\ status = "completed"
    /\ polls >= 2

\* C3: a status check that returned a value other than 'completed' is
\* followed by the sleep and then by a status check of the same job; all
\* status checks and the download name the job the submit returned; the
\* flow submits at most once and downloads only after 'completed'.
C3_SleepAndRetry ==
    /\ \A i \in IdxOf("status") :
          /\ trace[i].job = jobId
          /\ trace[i].res = "other" =>
                /\ i < Len(trace) => trace[i + 1].op = "sleep"
                /\ i + 1 < Len(trace) =>
                      (trace[i + 2].op = "status" /\ trace[i + 2].job = trace[i].job)
    /\ (lastOp = "status" /\ pc # "raised" /\ status \in Statuses \ {"completed"})
          => (pc = "sleep" /\ trace[Len(trace)].res = "other")
    /\ lastOp = "sleep" => pc = "poll"
    /\ Cardinality(IdxOf("submit")) <= 1
    /\ \A i \in IdxOf("download") :
          /\ trace[i].job = jobId
          /\ \A j \in 1..(i - 1) : trace[j].op = "status" /\ trace[j].res = "other" => j < i - 1

C3_Witness ==
    /\ pc = "poll"
    /\ lastOp = "sleep"
    /\ status = "failed"
    /\ polls = 2

\* C6: when sync_all has returned, the scratch directory does not exist and
\* holds no file.
C6_ScratchRemoved ==
    syncPc = "done" => (~dirExists /\ listdir = {})

C6_Witness ==
    /\ syncPc = "done"
    /\ run = 1
    /\ jobs >= 1
    /\ bookmarks[1] # NoBookmark

\* C7: the bookmarks change only when the CSV file is exhausted (no line
\* left to yield); the change touches the entry of the current stream alone
\* and writes that stream's replication key and the clock rounded to the
\* hour; a consumer that stopped early leaves the bookmarks as they were.
C7_BookmarkWrite ==
    /\ [][bookmarks' # bookmarks =>
            /\ IsContent(cur) /\ pc = "read" /\ rowsLeft = 0
            /\ \A i \in DOMAIN bookmarks : i # cur => bookmarks'[i] = bookmarks[i]
            /\ bookmarks'[cur].replication_key =
                  (IF CurName = "answer" THEN "answered_at" ELSE "completed_at")
            /\ bookmarks'[cur].replication_key_value % 60 = 0
            /\ bookmarks'[cur].replication_key_value - clock \in (-29)..30]_vars
    /\ [](lastOp = "bookmark" =>
            /\ rowsLeft = 0
            /\ bookmarks[cur].replication_key_value % 60 = 0
            /\ bookmarks[cur].replication_key_value - clock \in (-29)..30)
    /\ [](lastOp = "close" => bookmarks = bm0)

C7_Witness ==
    /\ lastOp = "bookmark"
    /\ cur = 2
    /\ emitted = 2
    /\ clock % 60 # 0
    /\ bookmarks[1] # NoBookmark
    /\ bookmarks[2] # bm0[2]

\* The operations C8 names: submit, status check, download, extraction, open.
C8_Ops == {"submit", "status", "download", "extract", "open"}

\* C8: when the job submit, a status check, the download, the extraction or
\* the CSV open has raised, the sync has ended with the error of that
\* operation, no record was yielded by that get_records nor can one be
\* yielded, and the bookmarks are those it began with.
C8_ErrorsPropagate ==
    (pc = "raised" /\ IsContent(cur) /\ lastOp \in C8_Ops) =>
        /\ err = lastOp
        /\ syncPc = "failed"
        /\ emitted = 0
        /\ bookmarks = bm0
        /\ ~ENABLED YieldRecord
        /\ ~ENABLED WriteBookmark

C8_Witness ==
    /\ pc = "raised"
    /\ err = "open"
    /\ startedEmpty
    /\ Cardinality(IdxOf("extract")) = 1

\* C10: every outbound call goes to the fixed API base and carries the
\* configured access token.
C10_FixedBase ==
    lastCall.op # "none" =>
        /\ lastCall.base = "https://api.intercom.io"
        /\ lastCall.token = cfg.access_token

\* ---- pagination
HasNext(b) == b.pages = "dict" /\ b.nextKey /\ b.next.t # "none"

\* C4: get_next_url returns None when 'pages' is absent or pages.next is
\* null, the starting_after value when pages.next is an object with that
\* key, and pages.next itself otherwise.
C4_GetNextUrl ==
    (pgCount >= 1 /\ pgPc # "advance" /\ pgBody.pages # "null") =>
        /\ ~HasNext(pgBody) => pgResult = Returned(PyNone)
        /\ (HasNext(pgBody) /\ pgBody.next.t = "dict" /\ pgBody.next.hasSA)
              => pgResult = Returned(SaValue(pgBody.next))
        /\ (HasNext(pgBody) /\ ~(pgBody.next.t = "dict" /\ pgBody.next.hasSA))
              => pgResult = Returned(pgBody.next)

\* The token a response gives: the starting_after cursor of an object, else
\* the string itself.
ExpectedToken(b) ==
    IF b.next.t = "dict" THEN PyStr(StrCursor(b.next.sa)) ELSE b.next

\* C5: a request after the first is issued only when the response before it
\* had a non-null pages.next, and is prepared with the token of that
\* response; after a response with no pages.next no request follows.
C5_Paging ==
    /\ (pgCount >= 2 /\ pgPc = "advance") =>
          (HasNext(pgPrevBody) /\ pgReqToken = ExpectedToken(pgPrevBody))
    /\ (pgCount >= 1 /\ pgPc = "request") =>
          (HasNext(pgBody) /\ pgValue = ExpectedToken(pgBody))
    /\ (pgCount >= 1 /\ pgPc # "advance" /\ ~HasNext(pgBody)) =>
          pgPc \in {"finished", "error"}
    /\ pgCount = 1 => pgReqToken = NoToken

C5_Witness ==
    /\ pgCount = 3
    /\ pgPc = "advance"
    /\ pgReqToken = PyStr(StrCursor("c2"))
    /\ pgPrevBody.next.t = "dict"
    /\ ~HasNext(pgBody)

\* ---- discover_streams
\* C9: when discover_streams is done, each of the 13 REST streams has the
\* primary keys the configuration gives under its own name, or none; the
\* export streams have none.
C9_PrimaryKeys ==
    dPos = Len(STREAMS_DCT) =>
        /\ Len(STREAMS_DCT) = 13
        /\ Len(dStreams) = Len(ExportStreamList) + 13
        /\ \A i \in 1..Len(ExportStreamList) : dStreams[i].primary_keys = <<>>
        /\ \A i \in 1..13 :
              LET st == dStreams[Len(ExportStreamList) + i] IN
              /\ st.name = STREAMS_DCT[i][1]
              /\ st.primary_keys =
                    (IF dCfg.present /\ st.name \in DOMAIN dCfg.map
                     THEN dCfg.map[st.name] ELSE <<>>)

C9_Witness ==
    /\ dPos = Len(STREAMS_DCT)
    /\ dCfg.present
    /\ DOMAIN dCfg.map = {"contacts", "answer"}
    /\ dCfg.map["contacts"] = <<"id", "workspace_id">>
    /\ dCfg.map["answer"] = <<"id">>

\* ---------------------------------------------------------------- C11
C11_Classes(streams, cls) == {i \in 1..Len(streams) : streams[i].cls = cls}

C11_RestKeys ==
    [n \in {"conversations", "conversation_parts", "collections", "contacts",
            "articles", "tickets"} |-> "updated_at"]
    @@ [n \in {"contacts_list", "admins", "events", "tags", "teams", "tickets_list",
               "segments"} |-> "None"]

\* C11: whatever the configuration, the list discover_streams returns holds
\* the 13 content-export streams, the 10 report-export streams and then the
\* 13 REST streams of STREAMS_DCT in its order, every name exactly once,
\* and each REST stream carries the replication key its name is mapped to.
C11_FixedCatalog ==
    dPos = Len(STREAMS_DCT) =>
        /\ Len(dStreams) = 36
        /\ C11_Classes(dStreams, "ContentExportStream") = 1..13
        /\ C11_Classes(dStreams, "ReportExportStream") = 14..23
        /\ SubSeq(dStreams, 1, 23) = ExportStreamList
        /\ \A i, j \in 1..Len(dStreams) :
              dStreams[i].name = dStreams[j].name => i = j
        /\ DOMAIN C11_RestKeys = StreamNames
        /\ \A i \in 1..Len(STREAMS_DCT) :
              /\ dStreams[23 + i].name = STREAMS_DCT[i][1]
              /\ dStreams[23 + i].cls = STREAMS_DCT[i][2]
              /\ dStreams[23 + i].replication_key = C11_RestKeys[STREAMS_DCT[i][1]]

C11_Witness ==
    /\ dPos = Len(STREAMS_DCT)
    /\ dCfg.present
    /\ DOMAIN dCfg.map = {"contacts_list", "conversation"}
    /\ Len(dStreams) = 36
    /\ dStreams[27].name = "contacts_list"
    /\ dStreams[27].replication_key = "None"

\* ---------------------------------------------------------------- C12
C12_Placeholder ==
    [n \in {"conversation_parts"} |-> "conversation_id"]
    @@ [n \in {"contacts"} |-> "contact_id"]
    @@ [n \in {"tickets"} |-> "ticket_id"]

C12_Prefix ==
    [n \in {"conversation_parts"} |-> "/conversations/"]
    @@ [n \in {"contacts"} |-> "/contacts/"]
    @@ [n \in {"tickets"} |-> "/tickets/"]

\* C12: for each of the three pairs, every parent record gives exactly one
\* child context; it binds the one placeholder of the child's path, and
\* nothing else, to the record's id; the child's request comes after the
\* record and after its context, and its URL carries that id.
C12_ChildContext ==
    chPair \in 1..Len(ParentChild) =>
        LET child == ParentChild[chPair][2]
        IN /\ chPc \in {"parent", "done"} =>
                chContexts = chRecords /\ chRequests = chRecords
           /\ chPc = "context" =>
                chContexts = chRecords - 1 /\ chRequests = chRecords - 1
           /\ chPc = "child" =>
                chContexts = chRecords /\ chRequests = chRecords - 1
           /\ chContexts > 0 /\ chPc # "context" =>
                /\ DOMAIN chContext = {C12_Placeholder[child]}
                /\ chContext[C12_Placeholder[child]] = chRecord["id"]
           /\ chRequests > 0 /\ chPc \in {"parent", "done"} =>
                chUrl = <<Lit("https://api.intercom.io"), Lit(C12_Prefix[child]),
                          Lit(chRecord["id"])>>

C12_Witness ==
    /\ chPair = 3
    /\ chPc = "parent"
    /\ chRecords = 2
    /\ chRequests = 2
    /\ chRecord["id"] = "102"
    /\ chUrl = <<Lit("https://api.intercom.io"), Lit("/tickets/"), Lit("102")>>

\* ---------------------------------------------------------------- C13
C13_HttpOps == {"submit", "status", "download"}

\* C13: a get_records that found the scratch directory non-empty makes no
\* HTTP call, and one that submitted a job found it empty or absent; so a
\* sync that began with the directory empty and whose first archive held at
\* least one file has submitted exactly one job and downloaded exactly one
\* archive, whichever content-export stream it has reached.
C13_OneExportPerSync ==
    /\ (pc # "none" /\ ~startedEmpty) =>
            \A i \in 1..Len(trace) : trace[i].op \notin C13_HttpOps
    /\ (\E i \in 1..Len(trace) : trace[i].op \in C13_HttpOps) => startedEmpty
    /\ (runStartEmpty /\ runArchive = "files") =>
            runSubmits = 1 /\ runDownloads = 1

C13_Witness ==
    /\ syncPc = "done"
    /\ run = 1
    /\ runStartEmpty
    /\ runArchive = "files"
    /\ runSubmits = 1
    /\ runDownloads = 1
    /\ \A i \in 1..Len(ContentStreams) : bookmarks[i] # NoBookmark

\* ---------------------------------------------------------------- C14
\* The query string of the token has a 'page' entry, one with a value.
C14_HasPage(token) == token.s.qkey = "page" /\ token.s.qval # ""

\* C14: the URL parameters of a request prepared with a token: none for a
\* POST stream; for a GET stream always per_page = 150, nothing else without
\* a token, page = the query's page value when the token's query has one,
\* starting_after = the token otherwise, and never page and starting_after
\* together.
C14_UrlParams ==
    pgCount > 0 =>
        /\ pgMethod = "POST" => DOMAIN pgParams = {}
        /\ pgMethod = "GET" =>
            /\ "per_page" \in DOMAIN pgParams
            /\ pgParams["per_page"] = 150
            /\ pgReqToken = NoToken => DOMAIN pgParams = {"per_page"}
            /\ (pgReqToken # NoToken /\ C14_HasPage(pgReqToken)) =>
                  /\ DOMAIN pgParams = {"per_page", "page"}
                  /\ pgParams["page"] = pgReqToken.s.qval
            /\ (pgReqToken # NoToken /\ ~C14_HasPage(pgReqToken)) =>
                  /\ DOMAIN pgParams = {"per_page", "starting_after"}
                  /\ pgParams["starting_after"] = pgReqToken
        /\ ~({"page", "starting_after"} \subseteq DOMAIN pgParams)

C14_Witness ==
    /\ pgMethod = "GET"
    /\ pgCount = 3
    /\ pgReqToken = PyStr(StrUrl("page", "2"))
    /\ DOMAIN pgParams = {"per_page", "page"}
    /\ pgParams["page"] = "2"
    /\ pgPrevBody.pages = "dict" /\ pgPrevBody.next = PyStr(StrUrl("page", "2"))

\* ---------------------------------------------------------------- C15
\* C15: the body of a request: none for a GET stream; for a POST stream a
\* dict that always sorts by updated_at ascending, holds the filter
\* updated_at > start_date (as epoch seconds) exactly when the configuration
\* has a start_date, holds pagination {per_page: 150, starting_after: token}
\* exactly when the request has a token, and holds nothing else.
C15_RequestPayload ==
    pgCount > 0 =>
        /\ pgMethod = "GET" => pgPayload.isNone
        /\ pgMethod = "POST" =>
            LET body == pgPayload.body IN
            /\ ~pgPayload.isNone
            /\ DOMAIN body \subseteq {"sort", "query", "pagination"}
            /\ "sort" \in DOMAIN body
            /\ body["sort"] = [field |-> "updated_at", order |-> "ascending"]
            /\ ("query" \in DOMAIN body) <=> (cfg.start_date # DateNone)
            /\ ("query" \in DOMAIN body) =>
                  body["query"] = [field |-> "updated_at", operator |-> ">",
                                   value |-> DateInt((cfg.start_date.v - tz) * 60)]
            /\ ("pagination" \in DOMAIN body) <=> (pgReqToken # NoToken)
            /\ ("pagination" \in DOMAIN body) =>
                  body["pagination"] = [per_page |-> 150, starting_after |-> pgReqToken]

C15_Witness ==
    /\ pgMethod = "POST"
    /\ pgCount = 2
    /\ cfg.start_date = DateStr(-60)
    /\ pgReqToken = PyStr(StrCursor("c1"))
    /\ DOMAIN pgPayload.body = {"sort", "query", "pagination"}
    /\ pgPayload.body["pagination"].starting_after = PyStr(StrCursor("c1"))

\* ---------------------------------------------------------------- C16
\* The text without the blanks before and after it.
C16_Trim(s) ==
    LET inner == {i \in 1..Len(s) : s[i] # " "} IN
    IF inner = {} THEN <<>>
    ELSE SubSeq(s, CHOOSE i \in inner : \A j \in inner : i <= j,
                   CHOOSE i \in inner : \A j \in inner : i >= j)

C16_Commas(s) == {i \in 1..Len(s) : s[i] = ","}

C16_Count(s) == Cardinality(C16_Commas(s)) + 1

\* The i-th comma-separated field: the text between comma i-1 and comma i.
C16_Field(s, i) ==
    LET before(p) == Cardinality({q \in C16_Commas(s) : q < p})
        marked == SelectSeq([p \in 1..Len(s) |-> [c |-> s[p], f |-> before(p) + 1]],
                            LAMBDA x : x.c # "," /\ x.f = i)
    IN [k \in 1..Len(marked) |-> marked[k].c]

\* C16: one record is yielded for each line read after the first, as it is
\* read, and none for the first; the record yielded for a line has as keys
\* the header's columns, up to the number of fields of the line, and under
\* its i-th column the line's i-th comma-separated field (under a column
\* name that occurs again later in the header, the later field); fields
\* beyond the columns and columns beyond the fields are dropped. Header and
\* line are taken without the blanks and the terminator around them.
C16_RecordPerLine ==
    /\ csvPc = "open" => csvEmitted = 0
    /\ csvEmitted = csvLines
    /\ csvLines > 0 =>
         LET h == C16_Trim(csvHeader.text)
             l == C16_Trim(csvLine.text)
             n == IF C16_Count(h) < C16_Count(l) THEN C16_Count(h) ELSE C16_Count(l)
         IN /\ DOMAIN csvRecord = {C16_Field(h, i) : i \in 1..n}
            /\ \A i \in 1..n :
                  (\A j \in (i + 1)..n : C16_Field(h, j) # C16_Field(h, i)) =>
                      csvRecord[C16_Field(h, i)] = C16_Field(l, i)

C16_Witness ==
    /\ csvLines = 2
    /\ csvEmitted = 2
    /\ csvHeader = Line(<<"a", ",">>, TRUE)
    /\ csvLine = Line(<<",", "a", ",">>, TRUE)
    /\ DOMAIN csvRecord = {<<"a">>, <<>>}
    /\ csvRecord[<<"a">>] = <<>>
    /\ csvRecord[<<>>] = <<"a">>

\* ---------------------------------------------------------------- C17
\* Files whose name begins with '<S>_', 8 digits, '-', 6 digits and '.csv'.
C17_FilesOf(S) == {f \in fnListing : f.stream = S /\ f.variant \in {"export", "backup"}}

\* C17: what get_filename returns for stream S is a file of the directory
\* whose name begins with '<S>_', 8 digits, '-', 6 digits, '.csv': never a
\* file of another stream, whether S is the start or the end of that
\* stream's name; and it returns nothing exactly when there is no such file.
C17_OwnFileOnly ==
    fnPc = "returned" =>
        /\ fnResult \subseteq C17_FilesOf(fnStream)
        /\ Cardinality(fnResult) <= 1
        /\ (fnResult = {}) <=> (C17_FilesOf(fnStream) = {})

C17_Witness ==
    /\ fnPc = "returned"
    /\ fnStream = "completion"
    /\ fnListing = {ExportFile("series_completion", "export"), ExportFile("completion", "export")}
    /\ fnResult = {ExportFile("completion", "export")}

\* ---------------------------------------------------------------- C18
\* C18: a get_records that finds no file of its stream in the scratch
\* directory after the export step ends there: it has yielded no record,
\* raised no error and left every bookmark as it was when it began.
C18_NoFileNoEffect ==
    lastOp = "nofile" =>
        /\ pc = "end"
        /\ emitted = 0
        /\ \A i \in 1..Len(trace) : trace[i].op \notin {"record", "bookmark", "open"}
        /\ err = "none"
        /\ syncPc = "streams"
        /\ bookmarks = bm0

C18_Witness ==
    /\ lastOp = "nofile"
    /\ pc = "end"
    /\ cur = 2
    /\ startedEmpty = FALSE
    /\ listdir = {CsvOf("answer"), OtherFile}
    /\ bookmarks[1] # NoBookmark
    /\ bookmarks[2] = NoBookmark

\* ---------------------------------------------------------------- C19
\* C19: the payload of an export job has exactly the fields created_at_after
\* and created_at_before; created_at_after is the stream's starting
\* replication-key value and created_at_before the configured end_date, or
\* the current time when there is none; a bound given as a date string
\* 'YYYY-MM-DDTHH:MM:SSZ' is sent as the integer epoch seconds of that UTC
\* date.
C19_Payload ==
    payPc = "returned" =>
        /\ DOMAIN payPayload = {"created_at_after", "created_at_before"}
        /\ payStart.kind = "str" =>
              payPayload.created_at_after = DateInt(payStart.v * 60)
        /\ payStart.kind # "str" => payPayload.created_at_after = payStart
        /\ cfg.end_date.kind = "str" =>
              payPayload.created_at_before = DateInt(cfg.end_date.v * 60)
        /\ cfg.end_date.kind = "none" =>
              payPayload.created_at_before = DateInt(payNow * 60)

\* ---------------------------------------------------------------- C20
\* The starting replication-key value get_records of the current stream
\* began with.
C20_StartValue ==
    IF bm0[cur] = NoBookmark THEN cfg.start_date
    ELSE DateStr(bm0[cur].replication_key_value)

\* C20: while a content-export stream yields records, in a sync that began
\* with an empty scratch directory, the export job whose files are in the
\* directory was requested with created_at_after equal to that stream's own
\* starting replication-key value.
C20_OwnWindow ==
    (syncPc = "streams" /\ IsContent(cur) /\ runStartEmpty /\ emitted > 0) =>
        window.created_at_after = ToEpoch(C20_StartValue, tz)

\* ---------------------------------------------------------------- C21
\* C21: when a content-export stream that requested its own export writes
\* its bookmark, the bookmark is not later than the created_at_before bound
\* of that export job.
C21_BookmarkWithinWindow ==
    (syncPc = "streams" /\ IsContent(cur) /\ startedEmpty /\ lastOp = "bookmark") =>
        bookmarks[cur].replication_key_value * 60 <= window.created_at_before.v

\* ---------------------------------------------------------------- C22
\* C22: a content-export stream yields records, and writes its bookmark,
\* only in a sync that has downloaded an archive.
C22_RecordsOfThisSync ==
    (syncPc = "streams" /\ IsContent(cur) /\ (emitted > 0 \/ lastOp = "bookmark")) =>
        runDownloads >= 1


\* ---------------------------------------------------------------- C23
\* C23: for a response whose pages.next is non-null (an object or a string),
\* get_next_url returns a value and does not raise.
C23_NextUrlNeverRaises ==
    (pgCount >= 1 /\ pgPc # "advance" /\ HasNext(pgBody)) =>
        pgResult.kind = "return"


\* ---------------------------------------------------------------- C24
\* Seconds since day 0, and the order of two datetimes.
C24_Seconds(ts) == ((ts.day * 24 + ts.hour) * 60 + ts.minute) * 60 + ts.second

C24_NotAfter(a, b) ==
    \/ C24_Seconds(a) < C24_Seconds(b)
    \/ C24_Seconds(a) = C24_Seconds(b) /\ a.microsecond <= b.microsecond

\* A datetime thirty minutes later.
C24_Plus30(ts) ==
    LET total == C24_Seconds(ts) + 1800
    IN  datetime(total \div 86400, (total % 86400) \div 3600,
                 (total % 3600) \div 60, total % 60, ts.microsecond)

\* C24: hour_rounder gives a whole hour: the hour of the timestamp when its
\* minute is below 30, the hour after it (of the next day after 23:xx) when
\* its minute is 30 or more; the result is within 30 minutes of the
\* timestamp, and rounding the result again gives the result.
C24_HourRounder ==
    /\ hrPc \in {"once", "twice"} =>
          /\ hrFirst.minute = 0 /\ hrFirst.second = 0 /\ hrFirst.microsecond = 0
          /\ hrInput.minute < 30 =>
                (hrFirst.day = hrInput.day /\ hrFirst.hour = hrInput.hour)
          /\ (hrInput.minute >= 30 /\ hrInput.hour < 23) =>
                (hrFirst.day = hrInput.day /\ hrFirst.hour = hrInput.hour + 1)
          /\ (hrInput.minute >= 30 /\ hrInput.hour = 23) =>
                (hrFirst.day = hrInput.day + 1 /\ hrFirst.hour = 0)
          /\ C24_NotAfter(hrFirst, C24_Plus30(hrInput))
          /\ C24_NotAfter(hrInput, C24_Plus30(hrFirst))
    /\ hrPc = "twice" => hrSecond = hrFirst

\* 23:40:59.999999 is rounded to 00:00 of the next day, twice.
C24_Witness ==
    /\ hrPc = "twice"
    /\ hrInput = datetime(0, 23, 40, 59, 999999)
    /\ hrFirst = datetime(1, 0, 0, 0, 0)
    /\ hrSecond = datetime(1, 0, 0, 0, 0)

====
